---- MODULE Spec2Model ----
(***************************************************************************)
(* Model of the syntactic bytecode analysis of                             *)
(* solutions/components/bytecode_analysis.py: CFGBuilder (leaders, nodes,  *)
(* predecessors, basic blocks), build_cfg_from_json, and BytecodeAnalyzer  *)
(* (build_cfg, call graph, entry points, analyze_class).                   *)
(*                                                                         *)
(* Python list positions are 0-based: position i of the instruction list   *)
(* is bytecode[i + 1] here.  An absent dictionary key / Python None is the *)
(* value None.                                                             *)
(***************************************************************************)
EXTENDS Integers, Sequences, FiniteSets, TLC

None == -9

\* ------------------------------------------------------------------ bounds
MaxLen == 3
MaxOffset == 3
MaxHandlers == 1
MaxFeatures == 1
MaxBuilds == 2
MaxMethods == 3
MaxAnalyses == 2
MaxJavapMethods == 2
MaxNodes == 2
MaxAdds == 2

\* ----------------------------------------------------------------- helpers
Range(s) == {s[i] : i \in DOMAIN s}

Min(S) == CHOOSE x \in S : \A y \in S : x <= y

Max(S) == CHOOSE x \in S : \A y \in S : y <= x

\* sorted(S) of a set of integers
RECURSIVE sorted(_)
sorted(S) == IF S = {} THEN <<>> ELSE <<Min(S)>> \o sorted(S \ {Min(S)})

\* list.sort() of a list of integers (duplicates kept)
RECURSIVE sort(_)
sort(s) ==
  IF s = <<>> THEN <<>>
  ELSE LET m == Min(Range(s))
           k == CHOOSE i \in DOMAIN s : s[i] = m
           rest == [j \in 1..(Len(s) - 1) |-> IF j < k THEN s[j] ELSE s[j + 1]]
       IN <<m>> \o sort(rest)

\* ------------------------------------------------------------ instructions
\* instr.get("offset", -1)
get_offset(instr) == IF instr.offset = None THEN -1 ELSE instr.offset

\* positions of the list whose instruction has a valid (non-negative) offset
ValidIdx(bc) == {i \in 0..(Len(bc) - 1) : get_offset(bc[i + 1]) >= 0}

ValidOffsets(bc) == {get_offset(bc[i + 1]) : i \in ValidIdx(bc)}

\* bytecode[i + 1].get("offset") when i + 1 < len(bytecode), else None
next_offset(bc, i) == IF i + 1 < Len(bc) THEN bc[i + 2].offset ELSE None

\* ------------------------------------------------------ ExceptionHandler
\* dict.get(key, key) on the index table
get_or_self(i2o, x) == IF x \in DOMAIN i2o THEN i2o[x] ELSE x

\* data.get(key, 0)
get_or_zero(x) == IF x = None THEN 0 ELSE x

\* ExceptionHandler.from_json(data, index_to_offset); use_map is the
\* truthiness of the index_to_offset argument (None or {} are falsy)
from_json(data, i2o, use_map) ==
  LET start == get_or_zero(data.start)
      end == get_or_zero(data.end)
      handler == get_or_zero(data.handler)
  IN IF use_map /\ DOMAIN i2o # {}
     THEN [start_pc |-> get_or_self(i2o, start),
           end_pc |-> get_or_self(i2o, end),
           handler_pc |-> get_or_self(i2o, handler),
           catch_type |-> data.catchType]
     ELSE [start_pc |-> start, end_pc |-> end, handler_pc |-> handler,
           catch_type |-> data.catchType]

\* ------------------------------------------------------------- CFGBuilder
\* the index table written by the enumerate loops (i -> offset, valid only)
index_table(bc, old) ==
  [i \in DOMAIN old \cup ValidIdx(bc) |->
     IF i \in ValidIdx(bc) THEN get_offset(bc[i + 1]) ELSE old[i]]

\* CFGBuilder._parse_opcodes: appends the valid offsets and sorts
parse_pc_list(bc, pcl) ==
  sort(pcl \o SelectSeq([k \in 1..Len(bc) |-> get_offset(bc[k])],
                        LAMBDA o : o >= 0))

\* CFGBuilder._resolve_target
resolve_target(i2o, target_index) ==
  IF target_index \in DOMAIN i2o THEN i2o[target_index] ELSE None

\* the resolved offsets of a list of indices, unresolved ones dropped
resolved(i2o, idxs) ==
  SelectSeq([k \in 1..Len(idxs) |-> resolve_target(i2o, idxs[k])],
            LAMBDA o : o # None)

\* the target indices of the switch cases of one form (bare int or dict)
case_targets(cases, isdict) ==
  LET sel == SelectSeq(cases, LAMBDA c : c.isdict = isdict)
  IN [k \in 1..Len(sel) |-> sel[k].target]

\* CFGBuilder._get_branch_targets
get_branch_targets(i2o, instr) ==
  IF instr.opr \in {"if", "ifz", "goto"}
  THEN resolved(i2o, <<instr.target>>)
  ELSE IF instr.opr = "tableswitch"
  THEN resolved(i2o, <<instr.default>> \o case_targets(instr.targets, FALSE))
  ELSE IF instr.opr = "lookupswitch"
  THEN resolved(i2o, <<instr.default>> \o case_targets(instr.targets, TRUE))
  ELSE <<>>

\* mutant: branch targets are not made leaders
leaders_at_no_targets(bc, i2o, i) ==
  LET instr == bc[i + 1]
      targets == get_branch_targets(i2o, instr)
      nxt == next_offset(bc, i)
  IN (IF targets # <<>> /\ instr.opr \in {"if", "ifz"} /\ nxt # None
      THEN {nxt} ELSE {})
     \cup (IF instr.opr \in {"goto", "return", "throw"} /\ nxt # None
           THEN {nxt} ELSE {})

\* the leaders contributed by the instruction at position i
leaders_at(bc, i2o, i) ==
  LET instr == bc[i + 1]
      targets == get_branch_targets(i2o, instr)
      nxt == next_offset(bc, i)
  IN Range(targets)
     \cup (IF targets # <<>> /\ instr.opr \in {"if", "ifz"} /\ nxt # None
           THEN {nxt} ELSE {})
     \cup (IF instr.opr \in {"goto", "return", "throw"} /\ nxt # None
           THEN {nxt} ELSE {})

\* mutant: the first instruction is not made a leader
find_leaders_no_first(bc, handlers, i2o, pcl, ops, ld) ==
  IF pcl = <<>> THEN ld
  ELSE ld \cup UNION {leaders_at(bc, i2o, i) : i \in ValidIdx(bc)}
          \cup {h.handler_pc : h \in
                  {x \in Range(handlers) :
                     \/ x.handler_pc \in ops
                     \/ x.handler_pc \in
                          {resolve_target(i2o, i) : i \in 0..(Len(bc) - 1)}}}

\* CFGBuilder._find_leaders
find_leaders(bc, handlers, i2o, pcl, ops, ld) ==
  IF pcl = <<>> THEN ld
  ELSE ld \cup {pcl[1]}
          \cup UNION {leaders_at(bc, i2o, i) : i \in ValidIdx(bc)}
          \cup {h.handler_pc : h \in
                  {x \in Range(handlers) :
                     \/ x.handler_pc \in ops
                     \/ x.handler_pc \in
                          {resolve_target(i2o, i) : i \in 0..(Len(bc) - 1)}}}

\* mutant: goto keeps the fall-through edge
compute_successors_goto_falls_through(bc, i2o, index) ==
  LET instr == bc[index + 1]
      nxt == next_offset(bc, index)
      fall == IF nxt # None THEN <<nxt>> ELSE <<>>
  IN IF instr.opr \in {"return", "throw"} THEN <<>>
     ELSE IF instr.opr \in {"if", "ifz", "goto"}
     THEN fall \o resolved(i2o, <<instr.target>>)
     ELSE IF instr.opr \in {"tableswitch", "lookupswitch"}
     THEN get_branch_targets(i2o, instr)
     ELSE fall

\* CFGBuilder._compute_successors (a list; the caller makes it a set)
compute_successors(bc, i2o, index) ==
  LET instr == bc[index + 1]
      nxt == next_offset(bc, index)
      fall == IF nxt # None THEN <<nxt>> ELSE <<>>
  IN IF instr.opr \in {"return", "throw"} THEN <<>>
     ELSE IF instr.opr \in {"if", "ifz"}
     THEN fall \o resolved(i2o, <<instr.target>>)
     ELSE IF instr.opr = "goto" THEN resolved(i2o, <<instr.target>>)
     ELSE IF instr.opr \in {"tableswitch", "lookupswitch"}
     THEN get_branch_targets(i2o, instr)
     ELSE fall

\* the node _build_nodes creates for the instruction at position i
node_at(bc, handlers, i2o, ld, i) ==
  LET instr == bc[i + 1]
      offset == get_offset(instr)
      hs == SelectSeq(handlers,
                      LAMBDA h : h.start_pc <= offset /\ offset < h.end_pc)
  IN [offset |-> offset,
      instruction |-> instr,
      successors |-> Range(compute_successors(bc, i2o, i))
                       \cup {hs[k].handler_pc : k \in DOMAIN hs},
      predecessors |-> {},
      is_leader |-> offset \in ld,
      basic_block_id |-> None,
      exception_handlers |-> hs]

\* CFGBuilder._build_nodes: self._cfg[offset] = node, in list order, so a
\* later instruction at the same offset replaces the earlier node
build_nodes(bc, handlers, i2o, ld, nodes) ==
  [o \in DOMAIN nodes \cup ValidOffsets(bc) |->
     IF o \in ValidOffsets(bc)
     THEN node_at(bc, handlers, i2o, ld,
                  Max({i \in ValidIdx(bc) : get_offset(bc[i + 1]) = o}))
     ELSE nodes[o]]

\* mutant: only forward edges are inverted
compute_predecessors_forward_only(nodes) ==
  [o \in DOMAIN nodes |->
     [nodes[o] EXCEPT !.predecessors =
        @ \cup {a \in DOMAIN nodes : a < o /\ o \in nodes[a].successors}]]

\* CFGBuilder._compute_predecessors
compute_predecessors(nodes) ==
  [o \in DOMAIN nodes |->
     [nodes[o] EXCEPT !.predecessors =
        @ \cup {a \in DOMAIN nodes : o \in nodes[a].successors}]]

\* first loop of _build_basic_blocks: i is the 1-based position in the
\* sorted leaders; the result carries the updated nodes and block list
RECURSIVE assign_blocks(_, _, _, _, _, _)
assign_blocks(sl, pcl, i, block_id, nodes, blocks) ==
  IF i > Len(sl) THEN [nodes |-> nodes, blocks |-> blocks]
  ELSE LET leader_pc == sl[i]
           block_nodes ==
             SelectSeq(pcl, LAMBDA p : /\ p >= leader_pc
                                       /\ (i < Len(sl) => p < sl[i + 1])
                                       /\ p \in DOMAIN nodes)
           nodes2 == [o \in DOMAIN nodes |->
                        IF o \in Range(block_nodes)
                        THEN [nodes[o] EXCEPT !.basic_block_id = block_id]
                        ELSE nodes[o]]
       IN IF block_nodes # <<>>
          THEN assign_blocks(sl, pcl, i + 1, block_id + 1, nodes2,
                 Append(blocks,
                        [block_id |-> block_id,
                         start_pc |-> block_nodes[1],
                         end_pc |-> block_nodes[Len(block_nodes)],
                         nodes |-> block_nodes,
                         successor_blocks |-> {},
                         predecessor_blocks |-> {}]))
          ELSE assign_blocks(sl, pcl, i + 1, block_id, nodes2, blocks)

\* second loop of _build_basic_blocks: block successors from the last node
block_successors(nodes, blocks) ==
  [k \in DOMAIN blocks |->
     LET last == blocks[k].nodes[Len(blocks[k].nodes)]
     IN [blocks[k] EXCEPT !.successor_blocks =
           @ \cup {nodes[s].basic_block_id :
                     s \in {x \in nodes[last].successors :
                              /\ x \in DOMAIN nodes
                              /\ nodes[x].basic_block_id # None}}]]

\* third loop of _build_basic_blocks: block predecessors, the inverse
block_predecessors(blocks) ==
  [k \in DOMAIN blocks |->
     [blocks[k] EXCEPT !.predecessor_blocks =
        @ \cup {blocks[j].block_id :
                  j \in {x \in DOMAIN blocks :
                           blocks[k].block_id \in blocks[x].successor_blocks}}]]

\* CFGBuilder._build_basic_blocks
build_basic_blocks(ld, pcl, nodes, blocks) ==
  LET a == assign_blocks(sorted(ld), pcl, 1, 0, nodes, blocks)
  IN [nodes |-> a.nodes,
      blocks |-> block_predecessors(block_successors(a.nodes, a.blocks))]

\* -------------------------------------------------------------------- CFG
\* CFGNode(offset=offset, instruction=inst) with the dataclass defaults
new_node(instr) ==
  [offset |-> get_offset(instr),
   instruction |-> instr,
   successors |-> {},
   predecessors |-> {},
   is_leader |-> FALSE,
   basic_block_id |-> None,
   exception_handlers |-> <<>>]

\* CFG.add_edge
add_edge(g, from_offset, to_offset) ==
  IF from_offset \in DOMAIN g.nodes /\ to_offset \in DOMAIN g.nodes
  THEN [g EXCEPT !.nodes[from_offset].successors = @ \cup {to_offset},
                 !.nodes[to_offset].predecessors = @ \cup {from_offset}]
  ELSE g

RECURSIVE add_edges(_, _)
add_edges(g, edges) ==
  IF edges = <<>> THEN g
  ELSE add_edges(add_edge(g, edges[1][1], edges[1][2]), Tail(edges))

\* the while loop of CFG.get_reachable_nodes; the worklist is a stack, the
\* successors of a node are pushed in ascending order
RECURSIVE reach_loop(_, _, _)
reach_loop(g, reachable, worklist) ==
  IF worklist = <<>> THEN reachable
  ELSE LET offset == worklist[Len(worklist)]
           rest == SubSeq(worklist, 1, Len(worklist) - 1)
       IN IF offset \in reachable \/ offset \notin DOMAIN g.nodes
          THEN reach_loop(g, reachable, rest)
          ELSE LET r2 == reachable \cup {offset}
               IN reach_loop(g, r2,
                    rest \o sorted({s \in g.nodes[offset].successors :
                                      s \notin r2}))

\* CFG.get_reachable_nodes
get_reachable_nodes(g) == reach_loop(g, {}, <<g.entry_offset>>)

\* CFG.get_unreachable_nodes
get_unreachable_nodes(g) == DOMAIN g.nodes \ get_reachable_nodes(g)

\* the orders in which iterating a set can produce its elements
RECURSIVE Perms(_)
Perms(S) ==
  IF S = {} THEN {<<>>}
  ELSE UNION {{<<x>> \o p : p \in Perms(S \ {x})} : x \in S}

\* mutant: only the first successor the iteration produces is pushed
RECURSIVE reach_orders_first_only(_, _, _)
reach_orders_first_only(g, reachable, worklist) ==
  IF worklist = <<>> THEN {reachable}
  ELSE LET offset == worklist[Len(worklist)]
           rest == SubSeq(worklist, 1, Len(worklist) - 1)
       IN IF offset \in reachable \/ offset \notin DOMAIN g.nodes
          THEN reach_orders_first_only(g, reachable, rest)
          ELSE LET r2 == reachable \cup {offset}
                   new == {s \in g.nodes[offset].successors : s \notin r2}
               IN UNION {reach_orders_first_only(g, r2,
                           rest \o SubSeq(p, 1, IF p = <<>> THEN 0 ELSE 1)) :
                         p \in Perms(new)}

\* the while loop of CFG.get_reachable_nodes with the successor set iterated
\* in every possible order: the set of visited sets it can return
RECURSIVE reach_orders(_, _, _)
reach_orders(g, reachable, worklist) ==
  IF worklist = <<>> THEN {reachable}
  ELSE LET offset == worklist[Len(worklist)]
           rest == SubSeq(worklist, 1, Len(worklist) - 1)
       IN IF offset \in reachable \/ offset \notin DOMAIN g.nodes
          THEN reach_orders(g, reachable, rest)
          ELSE LET r2 == reachable \cup {offset}
                   new == {s \in g.nodes[offset].successors : s \notin r2}
               IN UNION {reach_orders(g, r2, rest \o p) : p \in Perms(new)}

\* ------------------------------------------- BytecodeAnalyzer.build_cfg
\* every target index of the switch cases, bare ints and dicts alike
all_case_targets(cases) == [k \in 1..Len(cases) |-> cases[k].target]

\* the to_offset arguments of the add_edge calls made for position i
edge_targets(bc, i2o, i) ==
  LET instr == bc[i + 1]
      nxt == next_offset(bc, i)
      fall == IF nxt # None THEN <<nxt>> ELSE <<>>
  IN IF instr.opr \in {"if", "ifz"}
     THEN resolved(i2o, <<instr.target>>) \o fall
     ELSE IF instr.opr = "goto" THEN resolved(i2o, <<instr.target>>)
     ELSE IF instr.opr \in {"return", "throw"} THEN <<>>
     ELSE IF instr.opr \in {"tableswitch", "lookupswitch"}
     THEN resolved(i2o, <<instr.default>> \o all_case_targets(instr.targets))
     ELSE fall

\* the add_edge calls of the edge loop, in order, as <<from, to>> pairs
RECURSIVE edge_calls(_, _, _)
edge_calls(bc, i2o, i) ==
  IF i >= Len(bc) THEN <<>>
  ELSE LET offset == get_offset(bc[i + 1])
           tos == edge_targets(bc, i2o, i)
       IN (IF offset < 0 THEN <<>>
           ELSE [k \in 1..Len(tos) |-> <<offset, tos[k]>>])
          \o edge_calls(bc, i2o, i + 1)

\* BytecodeAnalyzer.build_cfg; entry_offset keeps the dataclass default 0
build_cfg(method_name, bc) ==
  LET i2o == index_table(bc, <<>>)
      g0 == [method_name |-> method_name,
             nodes |-> [o \in ValidOffsets(bc) |->
                          new_node(bc[Max({i \in ValidIdx(bc) :
                                             get_offset(bc[i + 1]) = o}) + 1])],
             entry_offset |-> 0]
  IN IF bc = <<>> THEN g0 ELSE add_edges(g0, edge_calls(bc, i2o, 0))

\* -------------------------------------------------------------- CallGraph
\* CallGraph.add_call
add_call(cg, caller, callee) ==
  [cg EXCEPT !.calls =
     [m \in DOMAIN cg.calls \cup {caller} |->
        IF m = caller
        THEN (IF caller \in DOMAIN cg.calls THEN cg.calls[caller] ELSE {})
               \cup {callee}
        ELSE cg.calls[m]]]

\* CallGraph.add_method
add_method(cg, method_name) ==
  [cg EXCEPT !.all_methods = @ \cup {method_name}]

\* a set as a list, as list(set) and set iteration produce it
RECURSIVE as_list(_)
as_list(S) ==
  IF S = {} THEN <<>>
  ELSE LET x == CHOOSE y \in S : TRUE IN <<x>> \o as_list(S \ {x})

\* mutant: the callees of a method are not followed
RECURSIVE calls_loop_no_callees(_, _, _)
calls_loop_no_callees(cg, reachable, worklist) ==
  IF worklist = <<>> THEN reachable
  ELSE LET method == worklist[Len(worklist)]
           rest == SubSeq(worklist, 1, Len(worklist) - 1)
       IN calls_loop_no_callees(cg, reachable \cup {method}, rest)

\* the while loop of CallGraph.get_reachable_from
RECURSIVE calls_loop(_, _, _)
calls_loop(cg, reachable, worklist) ==
  IF worklist = <<>> THEN reachable
  ELSE LET method == worklist[Len(worklist)]
           rest == SubSeq(worklist, 1, Len(worklist) - 1)
       IN IF method \in reachable THEN calls_loop(cg, reachable, rest)
          ELSE LET r2 == reachable \cup {method}
               IN calls_loop(cg, r2,
                    rest \o (IF method \in DOMAIN cg.calls
                             THEN as_list({c \in cg.calls[method] :
                                             c \notin r2})
                             ELSE <<>>))

\* CallGraph.get_reachable_from
get_reachable_from(cg, entry_points) ==
  calls_loop(cg, {}, as_list(entry_points))

\* the while loop of CallGraph.get_reachable_from with the callee set
\* iterated in every possible order
RECURSIVE calls_orders(_, _, _)
calls_orders(cg, reachable, worklist) ==
  IF worklist = <<>> THEN {reachable}
  ELSE LET method == worklist[Len(worklist)]
           rest == SubSeq(worklist, 1, Len(worklist) - 1)
       IN IF method \in reachable THEN calls_orders(cg, reachable, rest)
          ELSE LET r2 == reachable \cup {method}
                   new == IF method \in DOMAIN cg.calls
                          THEN {c \in cg.calls[method] : c \notin r2}
                          ELSE {}
               IN UNION {calls_orders(cg, r2, rest \o p) : p \in Perms(new)}

\* the visited sets get_reachable_from can return, list(entry_points) and
\* the callee sets taken in every order
reachable_from_orders(cg, entry_points) ==
  UNION {calls_orders(cg, {}, p) : p \in Perms(entry_points)}

\* ------------------------------------------------------- BytecodeAnalyzer
\* f"{classname}.{method_name}"
full_name(classname, method_name) == classname \o "." \o method_name

\* method.get("name", "<unknown>")
name_of(method) == IF method.name = "" THEN "<unknown>" ELSE method.name

\* BytecodeAnalyzer.extract_calls
RECURSIVE extract_calls(_, _, _)
extract_calls(cg, caller, bc) ==
  IF bc = <<>> THEN cg
  ELSE LET inst == bc[1]
           cg2 == IF /\ inst.opr = "invoke"
                     /\ inst.method.ref # ""
                     /\ inst.method.name # ""
                  THEN add_call(cg, caller,
                                full_name(inst.method.ref, inst.method.name))
                  ELSE cg
       IN extract_calls(cg2, caller, Tail(bc))

\* BytecodeAnalyzer.get_entry_points
get_entry_points(cls, classname) ==
  {full_name(classname, name_of(cls.methods[k])) :
     k \in {j \in DOMAIN cls.methods :
              LET method_name == name_of(cls.methods[j])
                  access == cls.methods[j].access
              IN \/ method_name = "main"
                 \/ "public" \in access
                 \/ "protected" \in access
                 \/ method_name = "<clinit>"
                 \/ (method_name = "<init>" /\ "public" \in access)}}

\* mutant: only methods with code are registered in the call graph
RECURSIVE scan_methods_code_only(_, _, _)
scan_methods_code_only(st, classname, methods) ==
  IF methods = <<>> THEN st
  ELSE LET method == methods[1]
           fn == full_name(classname, name_of(method))
           bc == method.code.bytecode
           st2 == IF method.has_code
                  THEN [cfgs |-> [m \in DOMAIN st.cfgs \cup {fn} |->
                                    IF m = fn THEN build_cfg(fn, bc)
                                    ELSE st.cfgs[m]],
                        call_graph |->
                          extract_calls(add_method(st.call_graph, fn), fn, bc)]
                  ELSE st
       IN scan_methods_code_only(st2, classname, Tail(methods))

\* the method loop of analyze_class over the analyzer's cfgs and call graph;
\* st is [cfgs, call_graph]
RECURSIVE scan_methods(_, _, _)
scan_methods(st, classname, methods) ==
  IF methods = <<>> THEN st
  ELSE LET method == methods[1]
           fn == full_name(classname, name_of(method))
           cg1 == add_method(st.call_graph, fn)
           bc == method.code.bytecode
           st2 == IF method.has_code
                  THEN [cfgs |-> [m \in DOMAIN st.cfgs \cup {fn} |->
                                    IF m = fn THEN build_cfg(fn, bc)
                                    ELSE st.cfgs[m]],
                        call_graph |-> extract_calls(cg1, fn, bc)]
                  ELSE [cfgs |-> st.cfgs, call_graph |-> cg1]
       IN scan_methods(st2, classname, Tail(methods))

RECURSIVE sum_nodes(_, _)
sum_nodes(cfgs, names) ==
  IF names = {} THEN 0
  ELSE LET m == CHOOSE x \in names : TRUE
       IN Cardinality(DOMAIN cfgs[m].nodes) + sum_nodes(cfgs, names \ {m})

\* AnalysisResult(cfgs=self.cfgs, call_graph=self.call_graph): the result
\* holds the analyzer's own dict and CallGraph object, so reading R.cfgs or
\* R.call_graph of any returned result R reads the analyzer's current state
result_cfgs(R, analyzer_cfgs) == analyzer_cfgs

result_call_graph(R, analyzer_call_graph) == analyzer_call_graph

\* AnalysisResult.get_dead_instruction_count
RECURSIVE sum_dead(_, _)
sum_dead(dead_instructions, names) ==
  IF names = {} THEN 0
  ELSE LET m == CHOOSE x \in names : TRUE
       IN Cardinality(dead_instructions[m])
            + sum_dead(dead_instructions, names \ {m})

get_dead_instruction_count(R) ==
  sum_dead(R.dead_instructions, DOMAIN R.dead_instructions)

\* AnalysisResult.get_debloat_percentage: the float (dead / total) * 100.0
\* as the fraction num / den, 0.0 when total_instructions is 0
get_debloat_percentage(R) ==
  IF R.total_instructions = 0 THEN [num |-> 0, den |-> 1]
  ELSE [num |-> get_dead_instruction_count(R) * 100,
        den |-> R.total_instructions]

\* mutant: the dead instructions of every method with a CFG are reported
analyze_class_dead_everywhere(cfgs, call_graph, cls, classname) ==
  LET st == scan_methods([cfgs |-> cfgs, call_graph |-> call_graph],
                         classname, cls.methods)
      entry_points == get_entry_points(cls, classname)
      reachable_methods == get_reachable_from(st.call_graph, entry_points)
      dead == {m \in DOMAIN st.cfgs : get_unreachable_nodes(st.cfgs[m]) # {}}
  IN [cfgs |-> st.cfgs,
      call_graph |-> st.call_graph,
      result |->
        [classname |-> classname,
         cfgs |-> st.cfgs,
         call_graph |-> st.call_graph,
         entry_points |-> entry_points,
         unreachable_methods |-> st.call_graph.all_methods \ reachable_methods,
         dead_instructions |->
           [m \in dead |-> get_unreachable_nodes(st.cfgs[m])],
         total_instructions |-> sum_nodes(st.cfgs, DOMAIN st.cfgs)]]

\* BytecodeAnalyzer.analyze_class after the class was found: the new
\* analyzer state and the AnalysisResult
analyze_class(cfgs, call_graph, cls, classname) ==
  LET st == scan_methods([cfgs |-> cfgs, call_graph |-> call_graph],
                         classname, cls.methods)
      entry_points == get_entry_points(cls, classname)
      reachable_methods == get_reachable_from(st.call_graph, entry_points)
      dead == {m \in DOMAIN st.cfgs :
                 /\ m \in reachable_methods
                 /\ get_unreachable_nodes(st.cfgs[m]) # {}}
  IN [cfgs |-> st.cfgs,
      call_graph |-> st.call_graph,
      result |->
        [classname |-> classname,
         cfgs |-> st.cfgs,
         call_graph |-> st.call_graph,
         entry_points |-> entry_points,
         unreachable_methods |-> st.call_graph.all_methods \ reachable_methods,
         dead_instructions |->
           [m \in dead |-> get_unreachable_nodes(st.cfgs[m])],
         total_instructions |-> sum_nodes(st.cfgs, DOMAIN st.cfgs)]]

\* ------------------------------------------- analyze_class_with_javap
\* the results dict before the method loop
EmptyReport ==
  [methods |-> <<>>,
   summary |-> [total_dead_lines |-> {},
                total_methods_analyzed |-> 0,
                methods_with_dead_code |-> 0]]

\* JavapMethod.get_line_for_offset: the line whose start offset is the
\* largest one not above offset, None when there is none
get_line_for_offset(line_table, offset) ==
  LET below == {l \in DOMAIN line_table : line_table[l] <= offset}
  IN IF below = {} THEN None
     ELSE CHOOSE l \in below : \A k \in below : line_table[k] <= line_table[l]

\* results['methods'][method_name] = entry
set_entry(rep, method_name, entry) ==
  [rep EXCEPT !.methods =
     [m \in DOMAIN rep.methods \cup {method_name} |->
        IF m = method_name THEN entry ELSE rep.methods[m]]]

\* the entry of a method: keys is the set of keys the dict has, the field of
\* a key it does not have is empty
error_entry(msg) ==
  [keys |-> {"error"}, error |-> msg, status |-> "",
   dead_offsets |-> <<>>, dead_lines |-> <<>>]

no_dead_code_entry ==
  [keys |-> {"dead_offsets", "dead_lines", "status"}, error |-> "",
   status |-> "no_dead_code", dead_offsets |-> <<>>, dead_lines |-> <<>>]

has_dead_code_entry(dead_offsets, dead_lines) ==
  [keys |-> {"dead_offsets", "dead_lines", "dead_line_details",
             "visited_offsets", "all_offsets", "status"},
   error |-> "", status |-> "has_dead_code",
   dead_offsets |-> sorted(dead_offsets), dead_lines |-> sorted(dead_lines)]

\* one iteration of the method loop; m.oracle is what
\* run_abstract_interpreter does for the method: raise, or return dead offsets
javap_step(rep, m) ==
  IF m.name \in {"<init>", "<clinit>"} THEN rep
  ELSE IF m.oracle.raises THEN set_entry(rep, m.name, error_entry(m.oracle.msg))
  ELSE LET counted ==
             [rep EXCEPT !.summary.total_methods_analyzed = @ + 1]
       IN IF m.oracle.dead_offsets = {}
          THEN set_entry(counted, m.name, no_dead_code_entry)
          ELSE LET lines == {get_line_for_offset(m.line_table, o) :
                               o \in m.oracle.dead_offsets}
                   dead_lines == {l \in lines : l # None /\ l # 0}
                   with_dead ==
                     [counted EXCEPT
                        !.summary.methods_with_dead_code = @ + 1,
                        !.summary.total_dead_lines = @ \cup dead_lines]
               IN set_entry(with_dead, m.name,
                            has_dead_code_entry(m.oracle.dead_offsets,
                                                dead_lines))

\* mutant: the first oracle failure ends the loop
RECURSIVE javap_loop_stops_at_error(_, _)
javap_loop_stops_at_error(rep, methods) ==
  IF methods = <<>> THEN rep
  ELSE IF methods[1].oracle.raises
            /\ methods[1].name \notin {"<init>", "<clinit>"}
  THEN javap_step(rep, methods[1])
  ELSE javap_loop_stops_at_error(javap_step(rep, methods[1]), Tail(methods))

\* the method loop of analyze_class_with_javap
RECURSIVE javap_loop(_, _)
javap_loop(rep, methods) ==
  IF methods = <<>> THEN rep
  ELSE javap_loop(javap_step(rep, methods[1]), Tail(methods))

\* analyze_class_with_javap: the loop, then total_dead_lines sorted (kept as
\* a set here, its order is not read)
analyze_class_with_javap(methods) == javap_loop(EmptyReport, methods)

\* ------------------------------------------------------------------ inputs
\* the CFG objects a traversal runs on: up to MaxNodes registered nodes,
\* successors and entry offset among them and one offset that is no node
\* (add_edge never produces such a successor, a caller writing the public
\* fields can)
WalkCFGs ==
  UNION {[kind : {"cfg"},
          nodes : [D -> [successors : SUBSET (0..MaxNodes)]],
          entry_offset : 0..MaxNodes] : D \in SUBSET (0..(MaxNodes - 1))}

\* the names of the call graphs: "m0" .. "m<MaxNodes>"
MethodNames == {"m" \o ToString(k) : k \in 0..MaxNodes}

Callers == {"m" \o ToString(k) : k \in 0..(MaxNodes - 1)}

\* the CallGraph objects a traversal runs on, with the entry points given
WalkCallGraphs ==
  UNION {[kind : {"calls"},
          calls : [D -> SUBSET MethodNames],
          entry_points : SUBSET MethodNames] : D \in SUBSET Callers}

\* what run_abstract_interpreter does for one method
OracleInputs ==
  {[raises |-> TRUE, msg |-> "oracle failed", dead_offsets |-> {}]}
  \cup {[raises |-> FALSE, msg |-> "", dead_offsets |-> d] :
          d \in SUBSET (0..1)}

\* the line tables javap prints (line -> first offset)
LineTables == {<<>>, [l \in {10, 11} |-> l - 10]}

\* the dict parse_javap returns: methods of pairwise different names in
\* insertion order
JavapInputs ==
  UNION {{ms \in [1..n -> [name : {"<init>", "f", "g"},
                           oracle : OracleInputs,
                           line_table : LineTables]] :
            \A j, k \in 1..n : j # k => ms[j].name # ms[k].name} :
           n \in 0..MaxJavapMethods}

NoMethod == [ref |-> "", name |-> ""]

Instr(offset, opr, target) ==
  [offset |-> offset, opr |-> opr, target |-> target, default |-> None,
   targets |-> <<>>, method |-> NoMethod]

Switch(offset, opr, default, cases) ==
  [offset |-> offset, opr |-> opr, target |-> None, default |-> default,
   targets |-> cases, method |-> NoMethod]

Invoke(offset, ref, name) ==
  [offset |-> offset, opr |-> "invoke", target |-> None, default |-> None,
   targets |-> <<>>, method |-> [ref |-> ref, name |-> name]]

\* instructions without a target, offset still to be set
PlainShapes ==
  {Instr(0, opr, None) : opr \in {"load", "return", "throw"}}

\* instructions with target indices; n is the length of the list, so index
\* n is past the end and n - 1 is the last instruction
BranchShapes(n) ==
  {Instr(0, opr, t) : opr \in {"if", "ifz", "goto"}, t \in 0..n}
  \cup {Switch(0, "tableswitch", d, <<[isdict |-> FALSE, target |-> c]>>) :
          d \in {n - 1, n}, c \in {n - 1, n}}
  \cup {Switch(0, "lookupswitch", d, <<[isdict |-> TRUE, target |-> c]>>) :
          d \in {n - 1, n}, c \in {n - 1, n}}

\* the last k instructions of a list of n, with at most f features (a
\* feature is a branch or a malformed offset), valid offsets ascending
\* from lo; left is the part of f not used
RECURSIVE Suffixes(_, _, _, _)
Suffixes(n, k, f, lo) ==
  IF k = 0 THEN {[bc |-> <<>>, left |-> f]}
  ELSE LET heads(shapes, x, rest) ==
             {[bc |-> <<[sh EXCEPT !.offset = x]>> \o r.bc, left |-> r.left] :
                sh \in shapes, r \in rest}
           valid(x) ==
             heads(PlainShapes, x, Suffixes(n, k - 1, f, x + 1))
             \cup (IF f >= 1
                   THEN heads(BranchShapes(n), x,
                              Suffixes(n, k - 1, f - 1, x + 1))
                   ELSE {})
           malformed(x) ==
             (IF f >= 1
              THEN heads(PlainShapes, x, Suffixes(n, k - 1, f - 1, lo))
              ELSE {})
             \cup (IF f >= 2
                   THEN heads(BranchShapes(n), x,
                              Suffixes(n, k - 1, f - 2, lo))
                   ELSE {})
       IN UNION {valid(x) : x \in lo..MaxOffset}
          \cup UNION {malformed(x) : x \in {None, -1}}

\* exception descriptors {start, end, handler, catchType} with start < end
Descriptors ==
  {d \in [start : 0..MaxOffset, end : 0..MaxOffset, handler : 0..MaxOffset,
          catchType : {None}] : d.start < d.end}

ExceptionLists(k) == UNION {[1..n -> Descriptors] : n \in 0..k}

\* the instruction lists analysed, each with the number of features left
\* for its exception descriptors: a method has at most MaxFeatures branches,
\* malformed offsets and handlers in all
MethodLists == UNION {Suffixes(n, n, MaxFeatures, 0) : n \in 0..MaxLen}

EmptyCFG == [method_name |-> "", nodes |-> <<>>, entry_offset |-> 0]

\* bodies of the methods of the analysed classes
RetCode == [bytecode |-> <<Instr(0, "return", None)>>, exceptions |-> <<>>]

\* invoke A.<name>; return
CallCode(name) ==
  [bytecode |-> <<Invoke(0, "A", name), Instr(1, "return", None)>>,
   exceptions |-> <<>>]

\* a goto over an instruction no other edge targets, then a loop back
SkipCode ==
  [bytecode |-> <<Instr(0, "goto", 2), Instr(1, "load", None),
                  Instr(2, "if", 0), Instr(3, "return", None)>>,
   exceptions |-> <<>>]

\* a protected return followed by its handler
TryCode ==
  [bytecode |-> <<Instr(0, "return", None), Instr(1, "load", None),
                  Instr(2, "return", None)>>,
   exceptions |-> <<[start |-> 0, end |-> 1, handler |-> 1,
                     catchType |-> None]>>]

CodeInputs == {CallCode("helper"), CallCode("util"), SkipCode, TryCode}

MethodDecls ==
  {[name |-> "main", access |-> {"public", "static"}],
   [name |-> "helper", access |-> {"private"}],
   [name |-> "util", access |-> {"private"}],
   [name |-> "util", access |-> {"public"}]}

\* a declared method: with a body, or without code (abstract, native)
MethodInputs ==
  {[name |-> d.name, access |-> d.access, has_code |-> TRUE, code |-> c] :
     d \in MethodDecls, c \in CodeInputs}
  \cup {[name |-> d.name, access |-> d.access, has_code |-> FALSE,
         code |-> RetCode] : d \in MethodDecls}

ClassInputs ==
  UNION {{[methods |-> ms] : ms \in [1..n -> MethodInputs]} :
           n \in 0..MaxMethods}

\* the second class of the suite; it invokes nothing of class A and class A
\* invokes nothing of it
ClassB ==
  [methods |-> <<[name |-> "run", access |-> {"private"}, has_code |-> TRUE,
                  code |-> SkipCode]>>]

\* declarations that exercise the entry-point rule: every visibility, the
\* static initializer, constructors, and main without public
EntryDecls ==
  {[name |-> "main", access |-> {"static"}],
   [name |-> "run", access |-> {"public"}],
   [name |-> "run", access |-> {"protected"}],
   [name |-> "run", access |-> {"private"}],
   [name |-> "step", access |-> {}],
   [name |-> "<clinit>", access |-> {"static"}],
   [name |-> "<init>", access |-> {"public"}],
   [name |-> "<init>", access |-> {"private"}],
   [name |-> "<init>", access |-> {}]}

\* classes of at most two such methods, each with a one-instruction body
EntryClassInputs ==
  UNION {{[methods |-> ms] :
            ms \in [1..n -> {[name |-> d.name, access |-> d.access,
                              has_code |-> TRUE, code |-> RetCode] :
                               d \in EntryDecls}]} : n \in 0..2}

\* names given to analyze_class; "Missing" is in no suite
ClassNames == {"A", "B", "Missing"}

EmptyCallGraph == [calls |-> <<>>, all_methods |-> {}]

\* ------------------------------------------------------------------- state
VARIABLES
  bytecode,            \* the method's instruction list
  exceptions,          \* the method's exception descriptors
  pc,                  \* what has been done with the method
  exception_handlers,  \* CFGBuilder.exception_handlers
  index_to_offset,     \* CFGBuilder._index_to_offset
  pc_list,             \* CFGBuilder._pc_list
  opcodes,             \* keys of CFGBuilder._opcodes
  leaders,             \* CFGBuilder._leaders
  cfg,                 \* CFGBuilder._cfg
  basic_blocks,        \* CFGBuilder._basic_blocks
  builds,              \* number of build() calls made
  acfg,                \* the CFG returned by BytecodeAnalyzer.build_cfg
  suite,               \* the classes suite.findclass finds
  cfgs,                \* BytecodeAnalyzer.cfgs
  call_graph,          \* BytecodeAnalyzer.call_graph
  results,             \* the AnalysisResults returned so far
  outcome,             \* how each analyze_class call ended, in order
  javap_methods,       \* the methods parse_javap found, in dict order
  report,              \* the results dict of analyze_class_with_javap
  walk_graph,          \* the CFG or CallGraph a traversal runs on
  walk_reachable,      \* the local variable reachable of the traversal
  walk_worklist,       \* the local variable worklist of the traversal
  walk_added           \* how often reachable.add was called with each element

vars == <<bytecode, exceptions, pc, exception_handlers, index_to_offset,
          pc_list, opcodes, leaders, cfg, basic_blocks, builds, acfg,
          suite, cfgs, call_graph, results, outcome, javap_methods, report,
          walk_graph, walk_reachable, walk_worklist, walk_added>>

builder_vars == <<exception_handlers, index_to_offset, pc_list, opcodes,
                  leaders, cfg, basic_blocks, builds>>

method_vars == <<bytecode, exceptions, pc, acfg>>

analyzer_vars == <<suite, cfgs, call_graph, results, outcome>>

javap_vars == <<javap_methods, report>>

walk_vars == <<walk_graph, walk_reachable, walk_worklist, walk_added>>

NoBuilder ==
  /\ exception_handlers = <<>>
  /\ index_to_offset = <<>>
  /\ pc_list = <<>>
  /\ opcodes = {}
  /\ leaders = {}
  /\ cfg = <<>>
  /\ basic_blocks = <<>>
  /\ builds = 0
  /\ acfg = EmptyCFG

NoAnalyzer ==
  /\ cfgs = <<>>
  /\ call_graph = EmptyCallGraph
  /\ results = <<>>
  /\ outcome = <<>>

NoJavap ==
  /\ javap_methods = <<>>
  /\ report = EmptyReport

NoWalk ==
  /\ walk_graph = [kind |-> "none"]
  /\ walk_reachable = {}
  /\ walk_worklist = <<>>
  /\ walk_added = <<>>

\* one method, no builder yet; the analyzer is not used
Init ==
  /\ \E m \in MethodLists :
       /\ bytecode = m.bc
       /\ exceptions \in ExceptionLists(IF m.left < MaxHandlers THEN m.left
                                         ELSE MaxHandlers)
  /\ pc = "input"
  /\ NoBuilder
  /\ suite = <<>>
  /\ NoAnalyzer
  /\ NoJavap
  /\ NoWalk

\* CFGBuilder.build applied to a builder in the given state
build(bc, handlers, i2o, pcl, ops, ld, nodes, blocks) ==
  IF bc = <<>>
  THEN [index_to_offset |-> i2o, pc_list |-> pcl, opcodes |-> ops,
        leaders |-> ld, cfg |-> nodes, basic_blocks |-> blocks]
  ELSE LET i2o2 == index_table(bc, i2o)
           pcl2 == parse_pc_list(bc, pcl)
           ops2 == ops \cup ValidOffsets(bc)
           ld2 == find_leaders(bc, handlers, i2o2, pcl2, ops2, ld)
           n1 == build_nodes(bc, handlers, i2o2, ld2, nodes)
           n2 == compute_predecessors(n1)
           bb == build_basic_blocks(ld2, pcl2, n2, blocks)
       IN [index_to_offset |-> i2o2, pc_list |-> pcl2, opcodes |-> ops2,
           leaders |-> ld2, cfg |-> bb.nodes, basic_blocks |-> bb.blocks]

\* CFGBuilder.__init__(bytecode, handlers), the handlers given by offsets
NewBuilder ==
  /\ pc = "input"
  /\ pc' = "constructed"
  /\ exception_handlers' =
       [k \in 1..Len(exceptions) |-> from_json(exceptions[k], <<>>, FALSE)]
  /\ UNCHANGED <<bytecode, exceptions, index_to_offset, pc_list, opcodes,
                 leaders, cfg, basic_blocks, builds, acfg>>
  /\ UNCHANGED analyzer_vars
  /\ UNCHANGED javap_vars
  /\ UNCHANGED walk_vars

\* builder.build()
Build ==
  /\ pc \in {"constructed", "built"}
  /\ builds < MaxBuilds
  /\ LET b == build(bytecode, exception_handlers, index_to_offset, pc_list,
                    opcodes, leaders, cfg, basic_blocks)
     IN /\ index_to_offset' = b.index_to_offset
        /\ pc_list' = b.pc_list
        /\ opcodes' = b.opcodes
        /\ leaders' = b.leaders
        /\ cfg' = b.cfg
        /\ basic_blocks' = b.basic_blocks
  /\ pc' = "built"
  /\ builds' = builds + 1
  /\ UNCHANGED <<bytecode, exceptions, exception_handlers, acfg>>
  /\ UNCHANGED analyzer_vars
  /\ UNCHANGED javap_vars
  /\ UNCHANGED walk_vars

\* build_cfg_from_json(method_json)
BuildCfgFromJson ==
  /\ pc = "input"
  /\ LET i2o == index_table(bytecode, <<>>)
         handlers == [k \in 1..Len(exceptions) |->
                        from_json(exceptions[k], i2o, TRUE)]
         b == build(bytecode, handlers, <<>>, <<>>, {}, {}, <<>>, <<>>)
     IN /\ exception_handlers' = handlers
        /\ index_to_offset' = b.index_to_offset
        /\ pc_list' = b.pc_list
        /\ opcodes' = b.opcodes
        /\ leaders' = b.leaders
        /\ cfg' = b.cfg
        /\ basic_blocks' = b.basic_blocks
  /\ pc' = "json_built"
  /\ builds' = 1
  /\ UNCHANGED <<bytecode, exceptions, acfg>>
  /\ UNCHANGED analyzer_vars
  /\ UNCHANGED javap_vars
  /\ UNCHANGED walk_vars

\* BytecodeAnalyzer.build_cfg(method_name, code)
BuildCfg ==
  /\ pc = "input"
  /\ acfg' = build_cfg("m", bytecode)
  /\ pc' = "cfg_built"
  /\ UNCHANGED <<bytecode, exceptions>>
  /\ UNCHANGED builder_vars
  /\ UNCHANGED analyzer_vars
  /\ UNCHANGED javap_vars
  /\ UNCHANGED walk_vars

Next == NewBuilder \/ Build \/ BuildCfgFromJson \/ BuildCfg

Spec == Init /\ [][Next]_vars

\* ------------------------------------------------- the analyzer's machine
\* a fresh BytecodeAnalyzer over a suite of two classes
InitAnalyzer ==
  /\ bytecode = <<>>
  /\ exceptions = <<>>
  /\ pc = "analyzer"
  /\ NoBuilder
  /\ \E a \in ClassInputs : suite = [c \in {"A", "B"} |->
                                       IF c = "A" THEN a ELSE ClassB]
  /\ NoAnalyzer
  /\ NoJavap
  /\ NoWalk

\* analyzer.analyze_class(classname), the class found
AnalyzeClass(classname) ==
  /\ Len(outcome) < MaxAnalyses
  /\ classname \in DOMAIN suite
  /\ LET r == analyze_class(cfgs, call_graph, suite[classname], classname)
     IN /\ cfgs' = r.cfgs
        /\ call_graph' = r.call_graph
        /\ results' = Append(results, r.result)
  /\ outcome' = Append(outcome, classname)
  /\ UNCHANGED <<suite, bytecode, exceptions, pc, acfg>>
  /\ UNCHANGED builder_vars
  /\ UNCHANGED javap_vars
  /\ UNCHANGED walk_vars

\* ValueError(f"Could not load class {classname}: {e}"); the text of the
\* cause e comes from the suite and is left out
load_error(classname) == "ValueError: Could not load class " \o classname

\* mutant: the class is registered in the call graph before the lookup fails
AnalyzeClassFails_registers(classname) ==
  /\ Len(outcome) < MaxAnalyses
  /\ classname \notin DOMAIN suite
  /\ outcome' = Append(outcome, load_error(classname))
  /\ call_graph' = add_method(call_graph, full_name(classname, "<unknown>"))
  /\ UNCHANGED <<suite, cfgs, results>>
  /\ UNCHANGED <<bytecode, exceptions, pc, acfg>>
  /\ UNCHANGED builder_vars
  /\ UNCHANGED javap_vars
  /\ UNCHANGED walk_vars

\* analyzer.analyze_class(classname), suite.findclass raising: ValueError
AnalyzeClassFails(classname) ==
  /\ Len(outcome) < MaxAnalyses
  /\ classname \notin DOMAIN suite
  /\ outcome' = Append(outcome, load_error(classname))
  /\ UNCHANGED <<suite, cfgs, call_graph, results>>
  /\ UNCHANGED <<bytecode, exceptions, pc, acfg>>
  /\ UNCHANGED builder_vars
  /\ UNCHANGED javap_vars
  /\ UNCHANGED walk_vars

NextAnalyzer ==
  \E classname \in ClassNames :
    AnalyzeClass(classname) \/ AnalyzeClassFails(classname)

SpecAnalyzer == InitAnalyzer /\ [][NextAnalyzer]_vars

\* a fresh BytecodeAnalyzer over a suite whose class A draws its methods
\* from the entry-point declarations
InitEntryPoints ==
  /\ bytecode = <<>>
  /\ exceptions = <<>>
  /\ pc = "analyzer"
  /\ NoBuilder
  /\ \E a \in EntryClassInputs : suite = [c \in {"A", "B"} |->
                                            IF c = "A" THEN a ELSE ClassB]
  /\ NoAnalyzer
  /\ NoJavap
  /\ NoWalk

SpecEntryPoints == InitEntryPoints /\ [][NextAnalyzer]_vars

\* ---------------------------------------------------- the javap machine
InitJavap ==
  /\ bytecode = <<>>
  /\ exceptions = <<>>
  /\ pc = "javap"
  /\ NoBuilder
  /\ suite = <<>>
  /\ NoAnalyzer
  /\ javap_methods \in JavapInputs
  /\ report = EmptyReport
  /\ NoWalk

\* analyze_class_with_javap(class_file, source_file)
AnalyzeClassWithJavap ==
  /\ pc = "javap"
  /\ report' = analyze_class_with_javap(javap_methods)
  /\ pc' = "javap_done"
  /\ UNCHANGED <<bytecode, exceptions, acfg, javap_methods>>
  /\ UNCHANGED builder_vars
  /\ UNCHANGED analyzer_vars
  /\ UNCHANGED walk_vars

NextJavap == AnalyzeClassWithJavap

SpecJavap == InitJavap /\ [][NextJavap]_vars

\* ------------------------------------------------ the traversals' machine
\* mutant: the element is not recorded as visited
mark_visited_forgets(reachable, x) == reachable

\* reachable.add(x)
mark_visited(reachable, x) == reachable \cup {x}

\* the count of reachable.add calls for x, kept up to MaxAdds
count_add(added, x) ==
  [y \in DOMAIN added \cup {x} |->
     IF y = x
     THEN (IF x \in DOMAIN added
           THEN (IF added[x] < MaxAdds THEN added[x] + 1 ELSE added[x])
           ELSE 1)
     ELSE added[y]]

\* a CFG or a CallGraph on which a traversal is about to be called
InitWalk ==
  /\ bytecode = <<>>
  /\ exceptions = <<>>
  /\ pc = "walk_input"
  /\ NoBuilder
  /\ suite = <<>>
  /\ NoAnalyzer
  /\ NoJavap
  /\ walk_graph \in WalkCFGs \cup WalkCallGraphs
  /\ walk_reachable = {}
  /\ walk_worklist = <<>>
  /\ walk_added = <<>>

WalkUnchanged ==
  /\ UNCHANGED <<bytecode, exceptions, acfg>>
  /\ UNCHANGED builder_vars
  /\ UNCHANGED analyzer_vars
  /\ UNCHANGED javap_vars

\* get_reachable_nodes up to the loop: reachable = set(), worklist = [entry]
ReachStart ==
  /\ pc = "walk_input"
  /\ walk_graph.kind = "cfg"
  /\ walk_reachable' = {}
  /\ walk_worklist' = <<walk_graph.entry_offset>>
  /\ pc' = "walk_loop"
  /\ UNCHANGED <<walk_graph, walk_added>>
  /\ WalkUnchanged

\* one iteration of the while loop of get_reachable_nodes; the successor set
\* is iterated in some order
ReachIterate ==
  /\ pc = "walk_loop"
  /\ walk_graph.kind = "cfg"
  /\ walk_worklist # <<>>
  /\ LET offset == walk_worklist[Len(walk_worklist)]
         rest == SubSeq(walk_worklist, 1, Len(walk_worklist) - 1)
     IN IF offset \in walk_reachable \/ offset \notin DOMAIN walk_graph.nodes
        THEN /\ walk_worklist' = rest
             /\ UNCHANGED <<walk_reachable, walk_added>>
        ELSE /\ walk_reachable' = mark_visited(walk_reachable, offset)
             /\ walk_added' = count_add(walk_added, offset)
             /\ \E p \in Perms({succ \in walk_graph.nodes[offset].successors :
                                  succ \notin walk_reachable'}) :
                  walk_worklist' = rest \o p
  /\ UNCHANGED <<pc, walk_graph>>
  /\ WalkUnchanged

\* get_reachable_from up to the loop: worklist = list(entry_points), the set
\* listed in some order
CallStart ==
  /\ pc = "walk_input"
  /\ walk_graph.kind = "calls"
  /\ walk_reachable' = {}
  /\ walk_worklist' \in Perms(walk_graph.entry_points)
  /\ pc' = "walk_loop"
  /\ UNCHANGED <<walk_graph, walk_added>>
  /\ WalkUnchanged

\* one iteration of the while loop of get_reachable_from
CallIterate ==
  /\ pc = "walk_loop"
  /\ walk_graph.kind = "calls"
  /\ walk_worklist # <<>>
  /\ LET method == walk_worklist[Len(walk_worklist)]
         rest == SubSeq(walk_worklist, 1, Len(walk_worklist) - 1)
     IN IF method \in walk_reachable
        THEN /\ walk_worklist' = rest
             /\ UNCHANGED <<walk_reachable, walk_added>>
        ELSE /\ walk_reachable' = mark_visited(walk_reachable, method)
             /\ walk_added' = count_add(walk_added, method)
             /\ \E p \in Perms(IF method \in DOMAIN walk_graph.calls
                               THEN {callee \in walk_graph.calls[method] :
                                       callee \notin walk_reachable'}
                               ELSE {}) :
                  walk_worklist' = rest \o p
  /\ UNCHANGED <<pc, walk_graph>>
  /\ WalkUnchanged

\* the loop condition fails and the traversal returns reachable
WalkReturn ==
  /\ pc = "walk_loop"
  /\ walk_worklist = <<>>
  /\ pc' = "walk_done"
  /\ UNCHANGED walk_vars
  /\ WalkUnchanged

NextWalk == ReachStart \/ ReachIterate \/ CallStart \/ CallIterate \/ WalkReturn

SpecWalk == InitWalk /\ [][NextWalk]_vars

\* a call that has started runs on: nothing else is scheduled
SpecWalkFair == SpecWalk /\ WF_vars(NextWalk)

\* ------------------------------------------------------------------ claims
Built == pc \in {"built", "json_built"}

BuiltOnce == Built /\ builds = 1

\* unique, ascending, non-negative offsets on a non-empty list
WellFormed(bc) ==
  /\ bc # <<>>
  /\ \A k \in DOMAIN bc : bc[k].offset >= 0
  /\ \A j, k \in DOMAIN bc : j < k => bc[j].offset < bc[k].offset

BlocksOf(o) == {k \in DOMAIN basic_blocks : o \in Range(basic_blocks[k].nodes)}

\* the offsets with a successor-edge path from the offsets in S
RECURSIVE PathClosure(_, _)
PathClosure(nodes, S) ==
  LET T == S \cup UNION {nodes[o].successors \cap DOMAIN nodes : o \in S}
  IN IF T = S THEN S ELSE PathClosure(nodes, T)

\* C1: after build() on a non-empty list with unique, ascending,
\* non-negative offsets the basic blocks partition the nodes: every node is
\* in exactly one block, once; no block is empty; a node's basic_block_id
\* is the id of its block; block 0 starts at the first offset.
C1_BlocksPartitionNodes ==
  (BuiltOnce /\ WellFormed(bytecode)) =>
    /\ \A o \in DOMAIN cfg : Cardinality(BlocksOf(o)) = 1
    /\ \A k \in DOMAIN basic_blocks :
         LET b == basic_blocks[k]
         IN /\ b.nodes # <<>>
            /\ Cardinality(Range(b.nodes)) = Len(b.nodes)
            /\ \A o \in Range(b.nodes) :
                 o \in DOMAIN cfg /\ cfg[o].basic_block_id = b.block_id
            /\ \A j \in DOMAIN basic_blocks :
                 basic_blocks[j].block_id = b.block_id => j = k
    /\ \E k \in DOMAIN basic_blocks :
         /\ basic_blocks[k].block_id = 0
         /\ basic_blocks[k].nodes[1] = bytecode[1].offset

C1_Witness ==
  /\ BuiltOnce
  /\ WellFormed(bytecode)
  /\ Len(basic_blocks) >= 2
  /\ \E k \in DOMAIN basic_blocks : Len(basic_blocks[k].nodes) >= 2

EdgeSymmetric(nodes) ==
  \A a, b \in DOMAIN nodes :
    b \in nodes[a].successors <=> a \in nodes[b].predecessors

\* C2: in a CFG built by CFGBuilder.build() or by BytecodeAnalyzer.build_cfg,
\* for all node offsets a and b, b is a successor of a iff a is a
\* predecessor of b.
C2_EdgeSymmetry ==
  /\ Built => EdgeSymmetric(cfg)
  /\ pc = "cfg_built" => EdgeSymmetric(acfg.nodes)

C2_Witness ==
  /\ Built
  /\ \E a, b \in DOMAIN cfg : b <= a /\ b \in cfg[a].successors

\* C3: after build(), an offset is a leader (and its node has is_leader set)
\* iff it is the first node of some basic block, for every instruction list.
C3_LeaderIffBlockStart ==
  BuiltOnce =>
    /\ \A o \in DOMAIN cfg : cfg[o].is_leader <=> o \in leaders
    /\ \A o \in leaders \cup DOMAIN cfg :
         o \in leaders <=>
           \E k \in DOMAIN basic_blocks : basic_blocks[k].nodes[1] = o

EndpointsAreNodes(nodes) ==
  \A o \in DOMAIN nodes :
    nodes[o].successors \cup nodes[o].predecessors \subseteq DOMAIN nodes

\* C4: every offset in a node's successors or predecessors is a key of the
\* node map, after build() and after build_cfg, for every instruction list
\* and handler list.
C4_EdgeEndpointsAreNodes ==
  /\ Built => EndpointsAreNodes(cfg)
  /\ pc = "cfg_built" => EndpointsAreNodes(acfg.nodes)

\* the target indices an instruction carries
TargetIndices(instr) ==
  IF instr.opr \in {"if", "ifz", "goto"} THEN {instr.target}
  ELSE IF instr.opr \in {"tableswitch", "lookupswitch"}
  THEN {instr.default} \cup {instr.targets[k].target : k \in DOMAIN instr.targets}
  ELSE {}

\* all three indices of the descriptor are positions of the list
Resolvable(d, bc) == {d.start, d.end, d.handler} \subseteq ValidIdx(bc)

\* C5: through build_cfg_from_json an index that is no position of the
\* instruction list creates no edge: every successor of a node is the next
\* instruction's offset, the offset of an in-range target index, or the
\* handler offset of a descriptor whose indices all resolve; and every
\* handler a node lists comes from such a descriptor.
C5_NoEdgeFromUnresolvedIndex ==
  pc = "json_built" =>
    \A i \in ValidIdx(bytecode) :
      LET instr == bytecode[i + 1]
          node == cfg[instr.offset]
          good == {d \in Range(exceptions) : Resolvable(d, bytecode)}
      IN /\ node.successors \subseteq
              {next_offset(bytecode, i)}
              \cup {bytecode[t + 1].offset :
                      t \in TargetIndices(instr) \cap ValidIdx(bytecode)}
              \cup {bytecode[d.handler + 1].offset : d \in good}
         /\ \A h \in Range(node.exception_handlers) :
              \E d \in good :
                h = [start_pc |-> bytecode[d.start + 1].offset,
                     end_pc |-> bytecode[d.end + 1].offset,
                     handler_pc |-> bytecode[d.handler + 1].offset,
                     catch_type |-> d.catchType]

\* C6: through build_cfg_from_json, with ascending offsets and a descriptor
\* with indices 0 <= s < e <= n and 0 <= h < n, exactly the instructions at
\* positions s..e-1 list the handler, and each of them has the offset of
\* instruction h as a successor.
C6_HandlerCoversIndexRange ==
  (pc = "json_built" /\ WellFormed(bytecode)) =>
    \A k \in DOMAIN exceptions :
      LET d == exceptions[k]
          n == Len(bytecode)
      IN (0 <= d.start /\ d.start < d.end /\ d.end <= n
            /\ 0 <= d.handler /\ d.handler < n) =>
           \A i \in 0..(n - 1) :
             LET node == cfg[bytecode[i + 1].offset]
                 inside == d.start <= i /\ i < d.end
             IN /\ inside <=>
                     exception_handlers[k] \in Range(node.exception_handlers)
                /\ inside =>
                     bytecode[d.handler + 1].offset \in node.successors

\* C8: for a CFG built by build_cfg from a non-empty list, entry_offset is
\* the first instruction's offset and get_unreachable_nodes() is exactly the
\* set of nodes without a successor-edge path from that instruction.
C8_UnreachableFromFirstInstruction ==
  (pc = "cfg_built" /\ bytecode # <<>>) =>
    /\ acfg.entry_offset = bytecode[1].offset
    /\ get_unreachable_nodes(acfg) =
         DOMAIN acfg.nodes
           \ PathClosure(acfg.nodes, {bytecode[1].offset} \cap DOMAIN acfg.nodes)

\* the dead offsets a result reports for a method
DeadOf(R, fn) ==
  IF fn \in DOMAIN R.dead_instructions THEN R.dead_instructions[fn] ELSE {}

\* the methods of class cls whose CFG the analyzer keeps under their name:
\* the last method of that name that has code
KeptMethods(cls) ==
  {j \in DOMAIN cls.methods :
     /\ cls.methods[j].has_code
     /\ \A k \in DOMAIN cls.methods :
          (k > j /\ cls.methods[k].name = cls.methods[j].name) =>
            ~cls.methods[k].has_code}

\* C7: in a result of analyze_class, for a reachable method with a handler
\* whose protected range holds an instruction reachable from the method
\* entry, neither the handler's entry instruction nor anything reachable
\* from it is in the method's dead_instructions.
C7_HandlerCodeIsNotDead ==
  \A r \in DOMAIN results :
    LET R == results[r]
        cls == suite[R.classname]
    IN \A j \in KeptMethods(cls) :
         LET fn == full_name(R.classname, cls.methods[j].name)
             bc == cls.methods[j].code.bytecode
             nodes == R.cfgs[fn].nodes
             live == PathClosure(nodes, {bc[1].offset} \cap DOMAIN nodes)
         IN (fn \notin R.unreachable_methods /\ WellFormed(bc)) =>
              \A d \in Range(cls.methods[j].code.exceptions) :
                (/\ Resolvable(d, bc)
                 /\ \E i \in d.start..(d.end - 1) :
                      i \in ValidIdx(bc) /\ bc[i + 1].offset \in live) =>
                  PathClosure(nodes, {bc[d.handler + 1].offset})
                    \cap DeadOf(R, fn) = {}

\* C9: the set get_reachable_nodes() returns is closed under successors;
\* the set get_reachable_from(E) returns contains E and is closed under
\* call edges, for every set E of methods.
C9_ReachableSetsAreClosed ==
  /\ \A g \in {acfg} \cup {cfgs[m] : m \in DOMAIN cfgs} :
       LET reach == get_reachable_nodes(g)
       IN \A o \in reach : g.nodes[o].successors \subseteq reach
  /\ \A E \in SUBSET call_graph.all_methods :
       LET reach == get_reachable_from(call_graph, E)
       IN /\ E \subseteq reach
          /\ \A m \in reach \cap DOMAIN call_graph.calls :
               call_graph.calls[m] \subseteq reach

C9_Witness ==
  /\ \E m \in DOMAIN call_graph.calls :
       /\ m \in call_graph.all_methods
       /\ m \in get_reachable_from(call_graph, call_graph.calls[m])
       /\ Cardinality(get_reachable_from(call_graph, {m})) >= 2
  /\ \E m \in DOMAIN cfgs :
       \E a, b \in get_reachable_nodes(cfgs[m]) :
         b < a /\ b \in cfgs[m].nodes[a].successors

\* the methods the code of the methods named fn invokes
InvokedBy(cls, classname, fn) ==
  UNION {{full_name(ins.method.ref, ins.method.name) :
            ins \in {x \in Range(cls.methods[j].code.bytecode) :
                       /\ x.opr = "invoke"
                       /\ x.method.ref # ""
                       /\ x.method.name # ""}} :
           j \in {k \in DOMAIN cls.methods :
                    /\ cls.methods[k].has_code
                    /\ full_name(classname, cls.methods[k].name) = fn}}

\* the methods with a path of invocations from the methods in S
RECURSIVE CallClosure(_, _, _)
CallClosure(cls, classname, S) ==
  LET T == S \cup UNION {InvokedBy(cls, classname, m) : m \in S}
  IN IF T = S THEN S ELSE CallClosure(cls, classname, T)

DeclaredMethods(cls, classname) ==
  {full_name(classname, cls.methods[j].name) : j \in DOMAIN cls.methods}

\* C10: for the first analyze_class call on a fresh analyzer,
\* unreachable_methods is the set of declared methods of the class, with or
\* without code, minus the methods with a path of invocations from the
\* entry points.
C10_UnreachableIsDeclaredMinusReachable ==
  Len(results) >= 1 =>
    LET R == results[1]
        cls == suite[R.classname]
    IN R.unreachable_methods =
         DeclaredMethods(cls, R.classname)
           \ CallClosure(cls, R.classname, R.entry_points)

C10_Witness ==
  /\ Len(results) >= 1
  /\ results[1].classname = "A"
  /\ results[1].entry_points = {"A.main"}
  /\ "A.helper" \in DeclaredMethods(suite["A"], "A")
  /\ "A.helper" \notin results[1].unreachable_methods
  /\ "A.util" \in results[1].unreachable_methods
  /\ \E j \in DOMAIN suite["A"].methods : ~suite["A"].methods[j].has_code

\* node keys, successor sets, predecessor sets and leader flags agree
SameGraph(n1, n2) ==
  /\ DOMAIN n1 = DOMAIN n2
  /\ \A o \in DOMAIN n1 :
       /\ n1[o].successors = n2[o].successors
       /\ n1[o].predecessors = n2[o].predecessors
       /\ n1[o].is_leader = n2[o].is_leader

\* the partition a block list induces on the nodes
PartitionOf(blocks) == {Range(blocks[k].nodes) : k \in DOMAIN blocks}

C12_ResultIsReadOnly ==
  \A r \in DOMAIN results :
    /\ result_cfgs(results[r], cfgs) = results[r].cfgs
    /\ result_call_graph(results[r], call_graph) = results[r].call_graph

\* the classes neither of which invokes a method of the other
InvokedClasses(cls) ==
  {ins.method.ref :
     ins \in UNION {Range(cls.methods[j].code.bytecode) :
                      j \in {k \in DOMAIN cls.methods :
                               cls.methods[k].has_code}}} \ {""}

Independent(c1, c2) ==
  /\ c1 # c2
  /\ c2 \notin InvokedClasses(suite[c1])
  /\ c1 \notin InvokedClasses(suite[c2])

\* C13: the result of analyze_class(B) on an analyzer that has analyzed
\* only classes independent of B before is the result analyze_class(B)
\* gives on a fresh analyzer.
C13_IndependentAnalysesShareNoState ==
  \A r \in DOMAIN results :
    LET c == results[r].classname
    IN (\A q \in 1..(r - 1) : Independent(results[q].classname, c)) =>
         results[r] =
           analyze_class(<<>>, EmptyCallGraph, suite[c], c).result

\* the number of instructions with a valid offset in the methods with code
RECURSIVE CountValid(_)
CountValid(methods) ==
  IF methods = <<>> THEN 0
  ELSE (IF methods[1].has_code
        THEN Cardinality(ValidIdx(methods[1].code.bytecode))
        ELSE 0) + CountValid(Tail(methods))

\* C14: for one analyze_class call on a fresh analyzer, total_instructions
\* is the sum over every method of the class that has code of the number of
\* its instructions with a valid offset, methods sharing a name included.
C14_TotalCountsEveryMethod ==
  Len(results) >= 1 =>
    results[1].total_instructions =
      CountValid(suite[results[1].classname].methods)

\* C15: in every result, dead_instructions has entries only for methods
\* reachable at the method level, each entry is a subset of the method's CFG
\* nodes, the dead count is at most total_instructions, and the debloat
\* percentage is between 0 and 100, and 0 when total_instructions is 0.
C15_DeadWithinTotal ==
  \A r \in DOMAIN results :
    LET R == results[r]
        pct == get_debloat_percentage(R)
    IN /\ \A m \in DOMAIN R.dead_instructions :
            /\ m \in get_reachable_from(R.call_graph, R.entry_points)
            /\ m \notin R.unreachable_methods
            /\ m \in DOMAIN R.cfgs
            /\ R.dead_instructions[m] \subseteq DOMAIN R.cfgs[m].nodes
            /\ R.dead_instructions[m] \subseteq
                 DOMAIN result_cfgs(R, cfgs)[m].nodes
       /\ get_dead_instruction_count(R) <= R.total_instructions
       /\ pct.den > 0
       /\ 0 <= pct.num /\ pct.num <= 100 * pct.den
       /\ R.total_instructions = 0 => pct.num = 0

C15_Witness ==
  \E r \in DOMAIN results :
    /\ get_dead_instruction_count(results[r]) >= 2
    /\ get_dead_instruction_count(results[r]) < results[r].total_instructions
    /\ results[r].unreachable_methods \cap DOMAIN results[r].cfgs # {}

\* the rule of the claim for one declared method
EntryRule(method) ==
  \/ method.name = "main"
  \/ "public" \in method.access
  \/ "protected" \in method.access
  \/ method.name = "<clinit>"

\* C16: a declared method is in entry_points iff its name is main, or its
\* access flags contain public or protected, or its name is <clinit>; a
\* private or package-private method with another name, a non-public
\* constructor included, is never an entry point.
C16_EntryPointRule ==
  \A r \in DOMAIN results :
    LET R == results[r]
        methods == suite[R.classname].methods
    IN /\ R.entry_points \subseteq DeclaredMethods(suite[R.classname],
                                                   R.classname)
       /\ \A j \in DOMAIN methods :
            full_name(R.classname, methods[j].name) \in R.entry_points
              <=> EntryRule(methods[j])

\* the analyze_class calls that found their class, in order
Succeeded == SelectSeq(outcome, LAMBDA o : o \in DOMAIN suite)

\* the analyzer state and results after analysing the classes of names in
\* order, starting from st = [cfgs, call_graph, results]
RECURSIVE Replay(_, _)
Replay(st, names) ==
  IF names = <<>> THEN st
  ELSE LET r == analyze_class(st.cfgs, st.call_graph, suite[names[1]],
                              names[1])
       IN Replay([cfgs |-> r.cfgs, call_graph |-> r.call_graph,
                  results |-> Append(st.results, r.result)], Tail(names))

\* C17: a failed class lookup ends in a ValueError naming the class and
\* leaves cfgs and the call graph unchanged: the analyzer's state and every
\* result returned are those of the same calls without the failed ones.
C17_FailedLookupLeavesNoTrace ==
  LET clean == Replay([cfgs |-> <<>>, call_graph |-> EmptyCallGraph,
                       results |-> <<>>], Succeeded)
  IN /\ results = clean.results
     /\ cfgs = clean.cfgs
     /\ call_graph = clean.call_graph
     /\ \A k \in DOMAIN outcome :
          outcome[k] \notin DOMAIN suite =>
            \E c \in ClassNames \ DOMAIN suite : outcome[k] = load_error(c)

C17_Witness ==
  /\ Len(outcome) = 2
  /\ outcome[1] = load_error("Missing")
  /\ outcome[2] = "A"
  /\ Len(results) = 1
  /\ results[1].cfgs # <<>>

\* the methods the loop processes: every one but the initializers
Processed ==
  {k \in 1..Len(javap_methods) :
     javap_methods[k].name \notin {"<init>", "<clinit>"}}

OracleSucceeded == {k \in Processed : ~javap_methods[k].oracle.raises}

\* the statuses an entry carries: the error key counts as status error
StatusesOf(entry) ==
  (IF "error" \in entry.keys THEN {"error"} ELSE {})
  \cup (IF "status" \in entry.keys THEN {entry.status} ELSE {})

\* C18: when analyze_class_with_javap has returned, every method but the
\* initializers has an entry, whatever the oracle did for the methods before
\* it; the entry carries exactly one status, error exactly when the oracle
\* raised (with the oracle's message and nothing else), has_dead_code exactly
\* when the oracle returned a non-empty dead-offset set, no_dead_code
\* otherwise; total_methods_analyzed is the number of methods whose oracle
\* call returned, methods_with_dead_code the number of those with dead
\* offsets, and the second never exceeds the first
C18_OracleFailureIsPerMethod ==
  pc = "javap_done" =>
    /\ DOMAIN report.methods = {javap_methods[k].name : k \in Processed}
    /\ \A k \in Processed :
         LET m == javap_methods[k]
             entry == report.methods[m.name]
         IN /\ Cardinality(StatusesOf(entry)) = 1
            /\ m.oracle.raises <=> StatusesOf(entry) = {"error"}
            /\ m.oracle.raises => entry = error_entry(m.oracle.msg)
            /\ (~m.oracle.raises /\ m.oracle.dead_offsets # {})
                 <=> StatusesOf(entry) = {"has_dead_code"}
            /\ (~m.oracle.raises /\ m.oracle.dead_offsets = {})
                 <=> StatusesOf(entry) = {"no_dead_code"}
            /\ ~m.oracle.raises =>
                 entry.dead_offsets = sorted(m.oracle.dead_offsets)
    /\ report.summary.total_methods_analyzed = Cardinality(OracleSucceeded)
    /\ report.summary.methods_with_dead_code =
         Cardinality({k \in OracleSucceeded :
                        javap_methods[k].oracle.dead_offsets # {}})
    /\ report.summary.methods_with_dead_code
         <= report.summary.total_methods_analyzed

\* the oracle raised for one method and a later method has dead code
C18_Witness ==
  /\ pc = "javap_done"
  /\ \E j, k \in Processed :
       /\ j < k
       /\ javap_methods[j].oracle.raises
       /\ report.methods[javap_methods[j].name].error = "oracle failed"
       /\ report.methods[javap_methods[k].name].status = "has_dead_code"
  /\ report.summary.total_methods_analyzed = 1
  /\ report.summary.methods_with_dead_code = 1

\* every target index of the list is the position of an instruction
TargetsInRange(bc) ==
  \A k \in DOMAIN bc : TargetIndices(bc[k]) \subseteq 0..(Len(bc) - 1)

\* no handler of the builder covers the offset
Uncovered(o) ==
  \A k \in DOMAIN exception_handlers :
    ~(exception_handlers[k].start_pc <= o /\ o < exception_handlers[k].end_pc)

\* the successor set the instruction at position i has by its kind
SuccessorsByKind(bc, i) ==
  LET instr == bc[i + 1]
      fall == IF i + 1 < Len(bc) THEN {bc[i + 2].offset} ELSE {}
      at(t) == bc[t + 1].offset
  IN IF instr.opr \in {"if", "ifz"} THEN fall \cup {at(instr.target)}
     ELSE IF instr.opr = "goto" THEN {at(instr.target)}
     ELSE IF instr.opr \in {"tableswitch", "lookupswitch"}
     THEN {at(instr.default)}
          \cup {at(instr.targets[k].target) : k \in DOMAIN instr.targets}
     ELSE IF instr.opr \in {"return", "throw"} THEN {}
     ELSE fall

StartsBlock(o) ==
  \E k \in DOMAIN basic_blocks :
    basic_blocks[k].nodes # <<>> /\ basic_blocks[k].nodes[1] = o

\* C20: after build() on a list with ascending unique offsets, the
\* instruction that follows an if/ifz, a goto, a return or a throw is a
\* leader and the first node of a basic block, whatever the target index of
\* the branch is
C20_InstructionAfterBranchIsLeader ==
  (Built /\ WellFormed(bytecode)) =>
    \A i \in 0..(Len(bytecode) - 2) :
      bytecode[i + 1].opr \in {"if", "ifz", "goto", "return", "throw"} =>
        /\ bytecode[i + 2].offset \in leaders
        /\ StartsBlock(bytecode[i + 2].offset)

\* the block record whose node list holds the offset
BlockOf(o) ==
  basic_blocks[CHOOSE k \in DOMAIN basic_blocks :
                 o \in Range(basic_blocks[k].nodes)]

\* C21: after build() on a list with ascending unique offsets and in-range
\* targets, a node that is not the last node of its block has the next node
\* of the block as its only successor, and for every node edge that leaves a
\* block the block of the target is in the successor list of the block of
\* the source; with switches and with exception handlers alike
C21_OnlyLastNodeLeavesBlock ==
  (BuiltOnce /\ WellFormed(bytecode) /\ TargetsInRange(bytecode)) =>
    /\ \A k \in DOMAIN basic_blocks :
         \A j \in 1..(Len(basic_blocks[k].nodes) - 1) :
           cfg[basic_blocks[k].nodes[j]].successors
             = {basic_blocks[k].nodes[j + 1]}
    /\ \A o \in DOMAIN cfg :
         \A t \in cfg[o].successors \cap DOMAIN cfg :
           BlockOf(t).block_id # BlockOf(o).block_id =>
             BlockOf(t).block_id \in BlockOf(o).successor_blocks

\* the offsets the instruction at position i can transfer control to other
\* than by falling through: its in-range branch, jump and switch targets
\* and the entry points of the handlers its node carries
TransferTargets(bc, i) ==
  {bc[t + 1].offset : t \in TargetIndices(bc[i + 1]) \cap 0..(Len(bc) - 1)}
  \cup {cfg[bc[i + 1].offset].exception_handlers[k].handler_pc :
          k \in DOMAIN cfg[bc[i + 1].offset].exception_handlers}

\* C22: after build() on a list with ascending unique offsets, a node that
\* is not the first node of its block has no predecessor but the node just
\* before it in the block, and every branch, jump, switch or handler target
\* that is a node is the first node of a block
C22_BlocksAreSingleEntry ==
  (BuiltOnce /\ WellFormed(bytecode)) =>
    /\ \A k \in DOMAIN basic_blocks :
         \A j \in 2..Len(basic_blocks[k].nodes) :
           cfg[basic_blocks[k].nodes[j]].predecessors
             \subseteq {basic_blocks[k].nodes[j - 1]}
    /\ \A i \in 0..(Len(bytecode) - 1) :
         \A t \in TransferTargets(bytecode, i) \cap DOMAIN cfg :
           StartsBlock(t)

\* a transfer edge into a block that is not the first one, next to a block
\* of two nodes
C22_Witness ==
  /\ BuiltOnce
  /\ WellFormed(bytecode)
  /\ \E k \in DOMAIN basic_blocks : Len(basic_blocks[k].nodes) >= 2
  /\ \E i \in 0..(Len(bytecode) - 1) :
       \E t \in TransferTargets(bytecode, i) \cap DOMAIN cfg :
         /\ BlockOf(t).block_id >= 1
         /\ bytecode[i + 1].offset \in cfg[t].predecessors
         /\ (i + 1 < Len(bytecode) => t # bytecode[i + 2].offset)

\* C23: a call of get_reachable_nodes or get_reachable_from on a finite
\* graph returns (the worklist becomes empty and the loop is left), also
\* with cycles, self-loops and entry points, successors or callees that are
\* no registered nodes, and no element is added to the visited set twice
C23_TraversalsTerminate ==
  /\ [](\A x \in DOMAIN walk_added : walk_added[x] <= 1)
  /\ <>(pc = "walk_done")

\* a traversal has returned after going round a cycle and meeting an
\* element that is not registered
C23_Witness ==
  /\ pc = "walk_done"
  /\ \/ /\ walk_graph.kind = "cfg"
        /\ \E a, b \in DOMAIN walk_graph.nodes :
             /\ a # b
             /\ b \in walk_graph.nodes[a].successors
             /\ a \in walk_graph.nodes[b].successors
             /\ a \in walk_graph.nodes[a].successors
             /\ {a, b} \subseteq walk_reachable
             /\ \E c \in walk_graph.nodes[b].successors :
                  c \notin DOMAIN walk_graph.nodes
     \/ /\ walk_graph.kind = "calls"
        /\ \E a, b \in DOMAIN walk_graph.calls :
             /\ a # b
             /\ b \in walk_graph.calls[a]
             /\ a \in walk_graph.calls[b]
             /\ a \in walk_graph.calls[a]
             /\ \E c \in walk_reachable : c \notin DOMAIN walk_graph.calls
  /\ \A x \in walk_reachable : walk_added[x] = 1

\* C24: a build() on a builder that was built before leaves what the
\* builder hands out as it was: get_basic_blocks() has as many blocks, with
\* the same node lists, no node twice in a block or in two blocks, and the
\* returned CFG has the same keys, successor sets and predecessor sets
C24_SecondBuildChangesNothing ==
  [][(pc = "built" /\ pc' = "built") =>
       /\ Len(basic_blocks') = Len(basic_blocks)
       /\ \A k \in DOMAIN basic_blocks :
            basic_blocks'[k].nodes = basic_blocks[k].nodes
       /\ \A k \in DOMAIN basic_blocks' :
            Cardinality(Range(basic_blocks'[k].nodes))
              = Len(basic_blocks'[k].nodes)
       /\ \A j, k \in DOMAIN basic_blocks' :
            j # k => Range(basic_blocks'[j].nodes)
                       \cap Range(basic_blocks'[k].nodes) = {}
       /\ SameGraph(cfg', cfg)]_vars
====
